---------------------------- MODULE Spec2Model ----------------------------
(***************************************************************************)
(* Action dispatch and transform layer of the embodied agent:              *)
(*   esp/scene/ObjectControls.cpp  (primitives, registry, filtered         *)
(*                                  dispatch)                              *)
(*   esp/agent/Agent.cpp           (act, hasAction, reset, getState,       *)
(*                                  setState)                              *)
(*                                                                         *)
(* Numbers.  Positions are integer 3-vectors.  A quaternion is the record  *)
(* [x, y, z, w, d, err] that stands for (x, y, z, w)/sqrt(d) with integer  *)
(* x, y, z, w and d > 0, so that rotations by multiples of 90 degrees      *)
(* (half angles that are multiples of 45 degrees) are exact: it has unit   *)
(* length exactly when x*x + y*y + z*z + w*w = d.  err counts the          *)
(* floating-point quaternion products applied since the value was last     *)
(* normalized: a product of unit quaternions is a unit quaternion only up  *)
(* to rounding, and the rounding accumulates until normalized() is called. *)
(***************************************************************************)
EXTENDS Integers, Sequences, FiniteSets, TLC

VARIABLES
  parentXf,        \* absolute transformation of the agent node's parent
  agentNode,       \* local transformation of the agent node (Agent::node())
  nodeSensors,     \* local transformations of the sensor nodes attached
                   \* under the agent node, in getNodeSensors() order
  sensorSpecs,     \* the pose each sensor's specification gives it
  configuration,   \* configuration_.actionSpace : key -> ActionSpec
  initialState,    \* Agent::initialState_
  moveFuncMap,     \* ObjectControls::moveFuncMap_ : name -> primitive
  moveFilterFunc,  \* ObjectControls::moveFilterFunc_ (the installed hook)
  last,            \* what the last operation was, did and returned
  hist,            \* history: the pose at construction, whether act() was
                   \* called, the state setState() wrote last
  rt               \* primitive round trip in progress (SpecPrimitives)

vars == <<parentXf, agentNode, nodeSensors, sensorSpecs, configuration,
          initialState, moveFuncMap, moveFilterFunc, last, hist,
          rt>>

-----------------------------------------------------------------------------
(* Bounds of the model. *)

\* positions are kept within -MaxCoord .. MaxCoord on every axis
MaxCoord == 1

\* at most this many sensors are attached under the agent node
MaxSensors == 2

\* quaternion products a rotation may accumulate and still pass
\* isNormalized()
DriftTolerance == 1

-----------------------------------------------------------------------------
(* Vectors and quaternions. *)

VAdd(u, v) == <<u[1] + v[1], u[2] + v[2], u[3] + v[3]>>
VSub(u, v) == <<u[1] - v[1], u[2] - v[2], u[3] - v[3]>>
VScale(u, k) == <<u[1]*k, u[2]*k, u[3]*k>>

Quat(x, y, z, w, d) ==
  [x |-> x, y |-> y, z |-> z, w |-> w, d |-> d, err |-> 0]
IdentityQuat == Quat(0, 0, 0, 1, 1)

\* (2x, 2y, 2z, 2w)/sqrt(4d) is (x, y, z, w)/sqrt(d): one value, one record
Lowest(q) ==
  IF q.d % 4 = 0 /\ q.x % 2 = 0 /\ q.y % 2 = 0 /\ q.z % 2 = 0 /\ q.w % 2 = 0
    THEN [x |-> q.x \div 2, y |-> q.y \div 2, z |-> q.z \div 2,
          w |-> q.w \div 2, d |-> q.d \div 4, err |-> q.err]
    ELSE q

\* Magnum::Quaternion::operator*: the Hamilton product; one more rounding
QMul(a, b) ==
  Lowest(Lowest(
    [x |-> a.w*b.x + a.x*b.w + a.y*b.z - a.z*b.y,
     y |-> a.w*b.y - a.x*b.z + a.y*b.w + a.z*b.x,
     z |-> a.w*b.z + a.x*b.y - a.y*b.x + a.z*b.w,
     w |-> a.w*b.w - a.x*b.x - a.y*b.y - a.z*b.z,
     d |-> a.d*b.d,
     err |-> a.err + b.err + 1]))

\* d*|q|^2
QDot(q) == q.x*q.x + q.y*q.y + q.z*q.z + q.w*q.w

\* Magnum::Quaternion::isNormalized: unit length within the tolerance
isNormalized(q) == QDot(q) = q.d /\ q.err <= DriftTolerance

\* Magnum::Quaternion::normalized: q/|q|, which is (x, y, z, w)/sqrt(x*x +
\* y*y + z*z + w*w); the division removes the accumulated rounding
normalized(q) == Lowest(Lowest([q EXCEPT !.d = QDot(q), !.err = 0]))

\* Magnum::Quaternion::rotation(Deg(angle), axis) for a coordinate axis and
\* an angle that is a multiple of 90 degrees: (axis*sin(a/2), cos(a/2)),
\* with sin and cos of k*45 degrees as s/sqrt(d) and c/sqrt(d)
HalfAngles ==
  <<<<0, 1, 1>>, <<1, 1, 2>>, <<1, 0, 1>>, <<1, -1, 2>>,
    <<0, -1, 1>>, <<-1, -1, 2>>, <<-1, 0, 1>>, <<-1, 1, 2>>>>
RotationAbout(axis, angleInDegrees) ==
  LET h == HalfAngles[((angleInDegrees \div 90) % 8) + 1]
  IN Quat(IF axis = "x" THEN h[1] ELSE 0, IF axis = "y" THEN h[1] ELSE 0,
          IF axis = "z" THEN h[1] ELSE 0, h[2], h[3])

\* columns of the rotation matrix of a unit quaternion: Matrix4::right(),
\* up(), backward() of a transformation without scaling
MatRight(q) ==
  <<(q.d - 2*(q.y*q.y + q.z*q.z)) \div q.d, (2*(q.x*q.y + q.z*q.w)) \div q.d,
    (2*(q.x*q.z - q.y*q.w)) \div q.d>>
MatUp(q) ==
  <<(2*(q.x*q.y - q.z*q.w)) \div q.d, (q.d - 2*(q.x*q.x + q.z*q.z)) \div q.d,
    (2*(q.y*q.z + q.x*q.w)) \div q.d>>
MatBackward(q) ==
  <<(2*(q.x*q.z + q.y*q.w)) \div q.d, (2*(q.y*q.z - q.x*q.w)) \div q.d,
    (q.d - 2*(q.x*q.x + q.y*q.y)) \div q.d>>

\* the rotation of q applied to vector u
TransformVector(q, u) ==
  VAdd(VAdd(VScale(MatRight(q), u[1]), VScale(MatUp(q), u[2])),
       VScale(MatBackward(q), u[3]))

-----------------------------------------------------------------------------
(* The scene node capability the core consumes (Magnum's                   *)
(* TranslationRotationScalingTransformation3D behind esp::scene::SceneNode): *)
(* a node holds a local translation and a local rotation, both relative to *)
(* its parent.                                                             *)

Node(t, r) == [translation |-> t, rotation |-> r]

\* SceneNode::translate: adds to the local translation, in the parent's frame
translate(object, vector) ==
  [object EXCEPT !.translation = VAdd(@, vector)]

\* SceneNode::translateLocal: for this transformation type the same as
\* translate() (the local axis is worked out by the caller)
translateLocal(object, vector) == translate(object, vector)

\* SceneNode::rotateYLocal / rotateXLocal: rotation = rotation * q
rotateYLocal(object, angleInDegrees) ==
  [object EXCEPT !.rotation = QMul(@, RotationAbout("y", angleInDegrees))]
rotateXLocal(object, angleInDegrees) ==
  [object EXCEPT !.rotation = QMul(@, RotationAbout("x", angleInDegrees))]

setRotation(object, q) == [object EXCEPT !.rotation = q]
setTranslation(object, vector) == [object EXCEPT !.translation = vector]

\* SceneNode::absoluteTransformation().translation(): the node's local
\* translation carried through the transformations of its ancestors.
\* Object 0 is the agent node, object i >= 1 the i-th sensor node, whose
\* parent is the agent node.
AgentObject == 0
ObjectNode(agent, sensors, obj) ==
  IF obj = AgentObject THEN agent ELSE sensors[obj]

absoluteTranslation(parent, agent, sensors, obj) ==
  IF obj = AgentObject
    THEN VAdd(parent.translation,
              TransformVector(parent.rotation, agent.translation))
    ELSE VAdd(parent.translation,
              TransformVector(parent.rotation,
                VAdd(agent.translation,
                     TransformVector(agent.rotation, sensors[obj].translation))))

-----------------------------------------------------------------------------
(* ObjectControls.cpp: the ten primitives. *)

moveRight(object, distance) ==
  translateLocal(object, VScale(MatRight(object.rotation), distance))

\* moveLeft that passes the distance on with its sign
moveLeftUnnegated(object, distance) == moveRight(object, distance)

moveLeft(object, distance) == moveRight(object, -distance)

moveUp(object, distance) == translate(object, VScale(<<0, 1, 0>>, distance))

moveDown(object, distance) == moveUp(object, -distance)

moveBackward(object, distance) ==
  translateLocal(object, VScale(MatBackward(object.rotation), distance))

moveForward(object, distance) == moveBackward(object, -distance)

\* turnLeft without its second statement: the rotation is left as multiplied
turnLeftUnnormalized(object, angleInDegrees) ==
  rotateYLocal(object, angleInDegrees)

turnLeft(object, angleInDegrees) ==
  LET rotated == rotateYLocal(object, angleInDegrees)
  IN setRotation(rotated, normalized(rotated.rotation))

turnRight(object, angleInDegrees) == turnLeft(object, -angleInDegrees)

lookUp(object, angleInDegrees) ==
  LET rotated == rotateXLocal(object, angleInDegrees)
  IN setRotation(rotated, normalized(rotated.rotation))

lookDown(object, angleInDegrees) == lookUp(object, -angleInDegrees)

\* ObjectControls::ObjectControls: the registry, name -> primitive
RegisteredNames ==
  {"moveRight", "moveLeft", "moveUp", "moveDown", "moveForward",
   "moveBackward", "turnLeft", "turnRight", "lookUp", "lookDown"}
ObjectControlsCtor == [n \in RegisteredNames |-> n]

\* moveFuncMapIter->second(object, distance)
MoveFunc(f, object, distance) ==
  CASE f = "moveRight" -> moveRight(object, distance)
    [] f = "moveLeft" -> moveLeft(object, distance)
    [] f = "moveUp" -> moveUp(object, distance)
    [] f = "moveDown" -> moveDown(object, distance)
    [] f = "moveForward" -> moveForward(object, distance)
    [] f = "moveBackward" -> moveBackward(object, distance)
    [] f = "turnLeft" -> turnLeft(object, distance)
    [] f = "turnRight" -> turnRight(object, distance)
    [] f = "lookUp" -> lookUp(object, distance)
    [] f = "lookDown" -> lookDown(object, distance)

\* The motion filter hooks installed in the model: the default (returns the
\* end position) and full rejection (returns the start position).
FilterFuncs == {"identity", "rejectAll"}
MoveFilter(f, start, end) ==
  CASE f = "identity" -> end
    [] f = "rejectAll" -> start

-----------------------------------------------------------------------------
(* ObjectControls::action.  controls = [moveFuncMap, moveFilterFunc];      *)
(* scene = [parent, agent, sensors].  The result carries the scene after   *)
(* the call, the filter hook's invocations (start, end, returned) and the  *)
(* names reported through ESP_ERROR.                                       *)

Scene(parent, agent, sensors) ==
  [parent |-> parent, agent |-> agent, sensors |-> sensors]

objectOf(scene, object) == ObjectNode(scene.agent, scene.sensors, object)

withObject(scene, object, node) ==
  IF object = AgentObject
    THEN [scene EXCEPT !.agent = node]
    ELSE [scene EXCEPT !.sensors[object] = node]

absolutePosition(scene, object) ==
  absoluteTranslation(scene.parent, scene.agent, scene.sensors, object)

\* ObjectControls::action, line 100, and what the call leaves behind: the
\* node is translated by the difference of the hook's value and endPos
correctPosition(moved, object, startPosition, endPos, filteredEndPosition) ==
  [scene |-> withObject(moved, object,
               translate(objectOf(moved, object),
                         VSub(filteredEndPosition, endPos))),
   hookCalls |-> <<[start |-> startPosition, end |-> endPos,
                    ret |-> filteredEndPosition]>>,
   errors |-> <<>>]

\* ObjectControls::action, lines 97-99: endPos is read from the moved node
\* and given to the hook with startPosition
filterPosition(controls, moved, object, startPosition, endPos) ==
  correctPosition(moved, object, startPosition, endPos,
                  MoveFilter(controls.moveFilterFunc, startPosition, endPos))

\* ObjectControls::action, lines 93-106: the name is registered.  moved is
\* the scene after the primitive has run on the object.
actionFound(controls, scene, object, moved, applyFilter) ==
  IF applyFilter
    THEN filterPosition(controls, moved, object,
                        absolutePosition(scene, object),
                        absolutePosition(moved, object))
    ELSE [scene |-> moved, hookCalls |-> <<>>, errors |-> <<>>]

\* action that ignores a name it does not find, without the ESP_ERROR
actionUnreported(controls, scene, object, actName, distance, applyFilter) ==
  IF actName \in DOMAIN controls.moveFuncMap
    THEN actionFound(controls, scene, object,
                     withObject(scene, object,
                       MoveFunc(controls.moveFuncMap[actName],
                                objectOf(scene, object), distance)),
                     applyFilter)
    ELSE [scene |-> scene, hookCalls |-> <<>>, errors |-> <<>>]

\* ObjectControls::action.  The result is the scene after the call, the
\* calls of the filter hook and the names reported with ESP_ERROR.
action(controls, scene, object, actName, distance, applyFilter) ==
  IF actName \in DOMAIN controls.moveFuncMap
    THEN actionFound(controls, scene, object,
                     withObject(scene, object,
                       MoveFunc(controls.moveFuncMap[actName],
                                objectOf(scene, object), distance)),
                     applyFilter)
    ELSE [scene |-> scene, hookCalls |-> <<>>, errors |-> <<actName>>]

-----------------------------------------------------------------------------
(* Agent.cpp.  An ActionSpec is [name, actuation], actuation a function    *)
(* from a set of parameter names to numbers; the action space maps action  *)
(* keys to ActionSpecs.                                                    *)

BodyActions ==
  {"moveRight", "moveLeft", "moveForward", "moveBackward", "turnLeft",
   "turnRight"}

hasAction(actionSpace, actionName) == actionName \in DOMAIN actionSpace

Dispatch(object, name, amount, applyFilter) ==
  [object |-> object, name |-> name, amount |-> amount,
   applyFilter |-> applyFilter]

\* what act() has done once the dispatches are made: each[i] is the
\* outcome of the i-th dispatch.  act() dispatches to the agent node alone,
\* with the filter, or to the sensors, without it; a name is either reported
\* for every object or for none.
dispatched(scene, objects, each, name, amount, applyFilter) ==
  [ret |-> "true",
   scene |-> IF objects = <<AgentObject>>
               THEN each[1].scene
               ELSE [scene EXCEPT !.sensors =
                       [i \in DOMAIN scene.sensors |->
                          each[i].scene.sensors[i]]],
   calls |-> [i \in DOMAIN objects |->
                Dispatch(objects[i], name, amount, applyFilter)],
   hookCalls |-> IF objects = <<AgentObject>> THEN each[1].hookCalls ELSE <<>>,
   errors |-> [i \in 1..Cardinality({j \in DOMAIN objects :
                                       each[j].errors # <<>>}) |-> name]]

\* Agent::act, lines 34-36 and 38-42: controls_->action on each of the
\* objects, in their order.  The dispatch to a sensor reads and changes that
\* sensor alone, so each is computed from the scene before the loop.
actOn(controls, scene, objects, name, amount, applyFilter) ==
  dispatched(scene, objects,
             [i \in DOMAIN objects |->
                action(controls, scene, objects[i], name, amount, applyFilter)],
             name, amount, applyFilter)

\* an ActionSpec and its actuation map
Amount(n) == [k \in {"amount"} |-> n]
NoActuation == [k \in {} |-> 0]
ActionSpec(name, actuation) == [name |-> name, actuation |-> actuation]

\* the result of an act() call that dispatched nothing
Undispatched(ret, scene) ==
  [ret |-> ret, scene |-> scene, calls |-> <<>>, hookCalls |-> <<>>,
   errors |-> <<>>]

\* Agent::act, lines 32-43: the ActionSpec is found.  actuation.at("amount")
\* is evaluated for each dispatch and throws std::out_of_range when the map
\* has no "amount".
actConfigured(controls, scene, actionSpec) ==
  IF actionSpec.name \in BodyActions
    THEN IF "amount" \in DOMAIN actionSpec.actuation
      THEN actOn(controls, scene, <<AgentObject>>, actionSpec.name,
                 actionSpec.actuation["amount"], TRUE)
      ELSE Undispatched("out_of_range", scene)
    ELSE IF Len(scene.sensors) = 0
      THEN Undispatched("true", scene)
      ELSE IF "amount" \in DOMAIN actionSpec.actuation
        THEN actOn(controls, scene, [i \in DOMAIN scene.sensors |-> i],
                   actionSpec.name, actionSpec.actuation["amount"], FALSE)
        ELSE Undispatched("out_of_range", scene)

\* act without the hasAction test: an unconfigured name is dispatched as the
\* primitive of that name
actUnguarded(actionSpace, controls, scene, actionName) ==
  actConfigured(controls, scene,
                IF hasAction(actionSpace, actionName)
                  THEN actionSpace[actionName]
                  ELSE ActionSpec(actionName, Amount(1)))

\* Agent::act.  ret is "true", "false", or "out_of_range" when
\* actuation.at("amount") throws.
act(actionSpace, controls, scene, actionName) ==
  IF hasAction(actionSpace, actionName)
    THEN actConfigured(controls, scene, actionSpace[actionName])
    ELSE Undispatched("false", scene)

\* An AgentState is [position, rotation], rotation the Vector4 of the
\* components (x, y, z, w)/sqrt(d).
Vector4(x, y, z, w, d) == [x |-> x, y |-> y, z |-> z, w |-> w, d |-> d]
VectorOf(q) == Vector4(q.x, q.y, q.z, q.w, q.d)

QuaternionOf(v) == Quat(v.x, v.y, v.z, v.w, v.d)

\* Agent::getState
getState(scene) ==
  [position |-> absolutePosition(scene, AgentObject),
   rotation |-> VectorOf(scene.agent.rotation)]

\* Sensor::setTransformationFromSpec on every sensor of the node
resetSensorTransformations(scene, specs) ==
  [scene EXCEPT !.sensors = [i \in DOMAIN scene.sensors |-> specs[i]]]

\* Agent::setState.  ret is "ok", or "assert" when CORRADE_ASSERT fails; the
\* translation is written before the rotation is checked.
setState(scene, specs, state, resetSensors) ==
  LET placed == [scene EXCEPT !.agent = setTranslation(@, state.position)]
      rot == QuaternionOf(state.rotation)
  IN IF ~isNormalized(rot)
       THEN [ret |-> "assert", scene |-> placed]
       ELSE LET turned == [placed EXCEPT !.agent = setRotation(@, rot)]
            IN [ret |-> "ok",
                scene |-> IF resetSensors
                            THEN resetSensorTransformations(turned, specs)
                            ELSE turned]

\* Agent::reset
reset(scene, specs, initial) == setState(scene, specs, initial, TRUE)

-----------------------------------------------------------------------------
(* The scenes, configurations and inputs the model draws from. *)

Origin == <<0, 0, 0>>

Abs(n) == IF n < 0 THEN -n ELSE n
InBounds(vector) == Abs(vector[1]) + Abs(vector[2]) + Abs(vector[3]) <= MaxCoord

SceneInBounds(scene) ==
  /\ InBounds(scene.agent.translation)
  /\ \A i \in DOMAIN scene.sensors : InBounds(scene.sensors[i].translation)

\* the parent of the agent node: the scene root, or a node that is itself
\* moved and turned
ParentTransforms ==
  {Node(Origin, IdentityQuat), Node(<<1, 0, 0>>, RotationAbout("y", 90))}

\* the pose of the agent node when the Agent is constructed on it
AgentPoses ==
  {Node(<<0, 0, 1>>, RotationAbout("y", 90))}

\* the pose the i-th sensor's specification gives its node
SensorSpecPose(i) ==
  Node(<<0, 0, 0>>, RotationAbout("x", 180 * (i - 1)))

\* the six body actions, each under its own name
BodyActionSpace ==
  [k \in BodyActions |->
     ActionSpec(k, Amount(IF k \in {"turnLeft", "turnRight"} THEN 90 ELSE 1))]

\* sensor actions, keys that differ from the ActionSpec names (a body key on
\* a sensor action, a sensor key on a body action), a name that is no
\* primitive, and actuations without "amount"
CustomActionSpace ==
  ("lookUp" :> ActionSpec("lookUp", Amount(90)))
    @@ ("moveUp" :> ActionSpec("moveUp", Amount(1)))
    @@ ("moveForward" :> ActionSpec("lookDown", Amount(90)))
    @@ ("lookDown" :> ActionSpec("moveLeft", Amount(1)))
    @@ ("jump" :> ActionSpec("fly", Amount(1)))
    @@ ("peek" :> ActionSpec("moveDown", NoActuation))
    @@ ("spin" :> ActionSpec("turnLeft", NoActuation))

ActionSpaces == {BodyActionSpace, CustomActionSpace}

\* the names act() is called with: the configured keys, a primitive's name
\* that may not be configured, and a name that is nothing
ActionNames(actionSpace) == DOMAIN actionSpace \cup {"moveRight", "teleport"}

\* the value of initialState_, which the constructor does not set: the
\* default AgentState, or a state recorded by the agent's owner
DefaultAgentState == [position |-> Origin, rotation |-> VectorOf(IdentityQuat)]
InitialStates ==
  {DefaultAgentState,
   [position |-> <<1, 0, 0>>, rotation |-> VectorOf(RotationAbout("y", 180))]}

\* the states setState() is called with: a unit rotation, and one of length 2
AgentStates ==
  {[position |-> <<0, 0, -1>>, rotation |-> VectorOf(RotationAbout("y", 90))],
   [position |-> <<0, 1, 0>>, rotation |-> Vector4(0, 0, 0, 2, 1)]}

\* the names and magnitudes action() is called with
IsRotationName(name) == name \in {"turnLeft", "turnRight", "lookUp", "lookDown"}
DispatchNames == RegisteredNames \cup {"fly"}
Distances(name) == IF IsRotationName(name) THEN {180} ELSE {1, -1}

\* the poses and magnitudes the primitives are called with
PrimitivePoses ==
  {Node(<<x, y, z>>, r) :
     x \in -MaxCoord..MaxCoord, y \in -MaxCoord..MaxCoord,
     z \in -MaxCoord..MaxCoord,
     r \in {IdentityQuat, RotationAbout("y", 90), RotationAbout("x", 270),
            normalized(QMul(RotationAbout("y", 90), RotationAbout("x", 90)))}}
Magnitudes(name) == IF IsRotationName(name) THEN {90, -90, 180} ELSE {1, -1, 2}

\* the partner of each primitive: moveLeft is moveRight with the sign turned
Opposite(name) ==
  CASE name = "moveRight" -> "moveLeft"
    [] name = "moveLeft" -> "moveRight"
    [] name = "moveUp" -> "moveDown"
    [] name = "moveDown" -> "moveUp"
    [] name = "moveBackward" -> "moveForward"
    [] name = "moveForward" -> "moveBackward"
    [] name = "turnLeft" -> "turnRight"
    [] name = "turnRight" -> "turnLeft"
    [] name = "lookUp" -> "lookDown"
    [] name = "lookDown" -> "lookUp"

-----------------------------------------------------------------------------
(* State. *)

CurrentScene == Scene(parentXf, agentNode, nodeSensors)
Controls == [moveFuncMap |-> moveFuncMap, moveFilterFunc |-> moveFilterFunc]

\* last: the call made last, its arguments, result and what it invoked.
\* hist: the pose at construction; whether the calls so far were act() calls
\* only ("acts"), none at all ("none") or others too ("other"); the arguments
\* of a setState() whose effect no later call has changed.
\* rt: the round trip of a primitive in progress.
NoOp ==
  [op |-> "none", arg |-> <<>>, ret |-> "", out |-> <<>>, calls |-> <<>>,
   hookCalls |-> <<>>, errors |-> <<>>]
Idle == [pc |-> "idle", name |-> "", m |-> 0, origin |-> <<>>, partner |-> <<>>]
Constructed(pose) == [constructed |-> pose, acts |-> "none", written |-> <<>>]

\* Agent::Agent on a node of a scene that has no sensor or MaxSensors of
\* them; ObjectControls::ObjectControls
Init ==
  /\ parentXf \in ParentTransforms
  /\ agentNode \in AgentPoses
  /\ \E n \in {0, MaxSensors} :
       /\ sensorSpecs = [i \in 1..n |-> SensorSpecPose(i)]
       /\ nodeSensors = sensorSpecs
  /\ configuration \in ActionSpaces
  /\ initialState \in InitialStates
  /\ moveFuncMap = ObjectControlsCtor
  /\ moveFilterFunc = "identity"
  /\ last = NoOp
  /\ hist = Constructed(agentNode)
  /\ rt = Idle

\* a failed CORRADE_ASSERT aborts the program
Running == last.ret # "assert"

Install(scene) ==
  /\ agentNode' = scene.agent
  /\ nodeSensors' = scene.sensors

\* the call made last was op(arg) with outcome r
Called(op, arg, r) ==
  [op |-> op, arg |-> arg, ret |-> r.ret, out |-> <<>>, calls |-> r.calls,
   hookCalls |-> r.hookCalls, errors |-> r.errors]

Acted(actionName, r) ==
  /\ SceneInBounds(r.scene)
  /\ Install(r.scene)
  /\ last' = Called("act", actionName, r)

DoAct(actionName) ==
  /\ Running
  /\ Acted(actionName, act(configuration, Controls, CurrentScene, actionName))
  /\ hist' = [hist EXCEPT !.acts = IF @ = "other" THEN "other" ELSE "acts",
                          !.written = <<>>]
  /\ UNCHANGED <<parentXf, sensorSpecs, configuration, initialState,
                 moveFuncMap, moveFilterFunc, rt>>

StateSet(op, arg, r) ==
  /\ Install(r.scene)
  /\ last' = [NoOp EXCEPT !.op = op, !.arg = arg, !.ret = r.ret]
  /\ hist' = [hist EXCEPT !.acts = "other",
                          !.written = IF op = "setState" /\ r.ret = "ok"
                                        THEN arg
                                        ELSE <<>>]

DoReset ==
  /\ Running
  /\ StateSet("reset", <<>>, reset(CurrentScene, sensorSpecs, initialState))
  /\ UNCHANGED <<parentXf, sensorSpecs, configuration, initialState,
                 moveFuncMap, moveFilterFunc, rt>>

DoGetState ==
  /\ Running
  /\ last' = [NoOp EXCEPT !.op = "getState", !.ret = "ok",
                          !.out = getState(CurrentScene)]
  /\ UNCHANGED <<parentXf, agentNode, nodeSensors, sensorSpecs, configuration,
                 initialState, moveFuncMap, moveFilterFunc, hist, rt>>

DoSetState(state, resetSensors) ==
  /\ Running
  /\ StateSet("setState", <<state, resetSensors>>,
              setState(CurrentScene, sensorSpecs, state, resetSensors))
  /\ UNCHANGED <<parentXf, sensorSpecs, configuration, initialState,
                 moveFuncMap, moveFilterFunc, rt>>

\* ObjectControls::setMoveFilterFunction
SetMoveFilterFunction(filterFunc) ==
  /\ Running
  /\ moveFilterFunc' = filterFunc
  /\ last' = [NoOp EXCEPT !.op = "setMoveFilterFunction", !.arg = filterFunc,
                          !.ret = "ok"]
  /\ UNCHANGED <<parentXf, agentNode, nodeSensors, sensorSpecs, configuration,
                 initialState, moveFuncMap, hist, rt>>

\* the Agent's interface
Next ==
  \/ \E actionName \in ActionNames(configuration) : DoAct(actionName)
  \/ DoReset
  \/ DoGetState
  \/ \E state \in AgentStates, resetSensors \in BOOLEAN :
       DoSetState(state, resetSensors)
  \/ \E filterFunc \in FilterFuncs : SetMoveFilterFunction(filterFunc)

Spec == Init /\ [][Next]_vars

-----------------------------------------------------------------------------
(* The dispatcher called directly on a node: ObjectControls::action. *)

Objects == {AgentObject} \cup DOMAIN nodeSensors

InitControls ==
  /\ parentXf \in ParentTransforms
  /\ agentNode \in AgentPoses
  /\ sensorSpecs = <<>>
  /\ nodeSensors = <<>>
  /\ configuration = BodyActionSpace
  /\ initialState = DefaultAgentState
  /\ moveFuncMap = ObjectControlsCtor
  /\ moveFilterFunc = "identity"
  /\ last = NoOp
  /\ hist = Constructed(agentNode)
  /\ rt = Idle

Dispatched(arg, r) ==
  /\ SceneInBounds(r.scene)
  /\ Install(r.scene)
  /\ last' = [NoOp EXCEPT !.op = "action", !.arg = arg, !.ret = "self",
                          !.hookCalls = r.hookCalls, !.errors = r.errors]

DoAction(object, actName, distance, applyFilter) ==
  /\ Dispatched(Dispatch(object, actName, distance, applyFilter),
                action(Controls, CurrentScene, object, actName, distance,
                       applyFilter))
  /\ UNCHANGED <<parentXf, sensorSpecs, configuration, initialState,
                 moveFuncMap, moveFilterFunc, hist, rt>>

NextControls ==
  \/ \E object \in Objects, actName \in DispatchNames, applyFilter \in BOOLEAN :
       \E distance \in Distances(actName) :
         DoAction(object, actName, distance, applyFilter)
  \/ \E filterFunc \in FilterFuncs : SetMoveFilterFunction(filterFunc)

SpecControls == InitControls /\ [][NextControls]_vars

-----------------------------------------------------------------------------
(* The primitives called directly on a node, each followed by its partner  *)
(* or by itself with the magnitude negated.                                *)

InitPrimitives ==
  /\ parentXf = Node(Origin, IdentityQuat)
  /\ agentNode \in PrimitivePoses
  /\ sensorSpecs = <<>>
  /\ nodeSensors = <<>>
  /\ configuration = BodyActionSpace
  /\ initialState = DefaultAgentState
  /\ moveFuncMap = ObjectControlsCtor
  /\ moveFilterFunc = "identity"
  /\ last = NoOp
  /\ hist = Constructed(agentNode)
  /\ rt = Idle

ApplyPrimitive(name, m) ==
  /\ rt.pc = "idle"
  /\ agentNode' = MoveFunc(moveFuncMap[name], agentNode, m)
  /\ rt' = [pc |-> "applied", name |-> name, m |-> m, origin |-> agentNode,
            partner |-> MoveFunc(moveFuncMap[Opposite(name)], agentNode, -m)]
  /\ UNCHANGED <<parentXf, nodeSensors, sensorSpecs, configuration,
                 initialState, moveFuncMap, moveFilterFunc, last, hist>>

UndoByOpposite ==
  /\ rt.pc = "applied"
  /\ agentNode' = MoveFunc(moveFuncMap[Opposite(rt.name)], agentNode, rt.m)
  /\ rt' = [rt EXCEPT !.pc = "restored"]
  /\ UNCHANGED <<parentXf, nodeSensors, sensorSpecs, configuration,
                 initialState, moveFuncMap, moveFilterFunc, last, hist>>

UndoByNegation ==
  /\ rt.pc = "applied"
  /\ agentNode' = MoveFunc(moveFuncMap[rt.name], agentNode, -rt.m)
  /\ rt' = [rt EXCEPT !.pc = "restored"]
  /\ UNCHANGED <<parentXf, nodeSensors, sensorSpecs, configuration,
                 initialState, moveFuncMap, moveFilterFunc, last, hist>>

NextPrimitives ==
  \/ \E name \in RegisteredNames : \E m \in Magnitudes(name) :
       ApplyPrimitive(name, m)
  \/ UndoByOpposite
  \/ UndoByNegation

SpecPrimitives == InitPrimitives /\ [][NextPrimitives]_vars

-----------------------------------------------------------------------------
(* Properties of Agent::act, checked under Spec. *)

\* C1: act(name) with a name that is no key of the configured action space
\* returns false, calls neither the dispatcher nor the filter hook, and
\* leaves the agent node and every sensor node as they were.
C1_UnconfiguredActIsNoOp ==
  [][(last'.op = "act" /\ last'.arg \notin DOMAIN configuration)
       => /\ last'.ret = "false"
          /\ last'.calls = <<>>
          /\ last'.hookCalls = <<>>
          /\ last'.errors = <<>>
          /\ agentNode' = agentNode
          /\ nodeSensors' = nodeSensors]_vars

\* an unconfigured name that is a registered primitive was given to act() on
\* an agent that has sensors and was moved before, and act() returned false
C1_Witness ==
  /\ last.op = "act"
  /\ last.arg \notin DOMAIN configuration
  /\ last.arg \in RegisteredNames
  /\ last.ret = "false"
  /\ nodeSensors # <<>>
  /\ agentNode # hist.constructed

\* C8: after any sequence of act(), setState() and reset() calls the
\* rotation of the agent node and of every sensor node is a normalized
\* quaternion, and a setState() whose rotation is not normalized fails its
\* assertion without writing that rotation to the node.
C8_RotationsNormalized ==
  /\ isNormalized(agentNode.rotation)
  /\ \A i \in DOMAIN nodeSensors : isNormalized(nodeSensors[i].rotation)
  /\ (last.op = "setState" /\ ~isNormalized(QuaternionOf(last.arg[1].rotation)))
       => /\ last.ret = "assert"
          /\ VectorOf(agentNode.rotation) # last.arg[1].rotation

\* the agent and a sensor were turned by rotation primitives, and then a
\* setState() with a rotation of length 2 failed
C8_Witness ==
  /\ last.op = "setState"
  /\ last.ret = "assert"
  /\ agentNode.rotation # hist.constructed.rotation
  /\ \E i \in DOMAIN nodeSensors :
       nodeSensors[i].rotation # sensorSpecs[i].rotation

\* C2: with the hook that returns its start position installed, act() on a
\* configured body action leaves the agent node's absolute position as it
\* was before the call, whatever the pose of the node and the transform of
\* its parent; and act() on a configured non-body action does not call the
\* hook, the sensors ending where the primitive alone puts them.
C2_RejectingHookKeepsBodyInPlace ==
  [][(/\ last'.op = "act"
      /\ last'.arg \in DOMAIN configuration
      /\ moveFilterFunc = "rejectAll")
       => LET actionSpec == configuration[last'.arg]
          IN IF actionSpec.name \in BodyActions
               THEN absolutePosition(CurrentScene', AgentObject)
                      = absolutePosition(CurrentScene, AgentObject)
               ELSE /\ last'.hookCalls = <<>>
                    /\ (/\ "amount" \in DOMAIN actionSpec.actuation
                        /\ actionSpec.name \in RegisteredNames)
                         => \A i \in DOMAIN nodeSensors :
                              nodeSensors'[i]
                                = MoveFunc(moveFuncMap[actionSpec.name],
                                           nodeSensors[i],
                                           actionSpec.actuation["amount"])]_vars

\* C4: act() on a configured non-body action calls the dispatcher once for
\* each sensor attached to the agent node, in the order of the sensors and
\* with applyFilter = FALSE, so that the primitive changes the local
\* transform of every sensor, and the agent node keeps its transform.
C4_NonBodyActsOnEverySensor ==
  [][(/\ last'.op = "act"
      /\ last'.arg \in DOMAIN configuration
      /\ configuration[last'.arg].name \notin BodyActions)
       => LET actionSpec == configuration[last'.arg]
          IN /\ Len(last'.calls) = Len(nodeSensors)
             /\ \A i \in DOMAIN nodeSensors :
                  /\ last'.calls[i]
                       = Dispatch(i, actionSpec.name,
                                  actionSpec.actuation["amount"], FALSE)
                  /\ actionSpec.name \in RegisteredNames
                       => nodeSensors'[i]
                            = MoveFunc(moveFuncMap[actionSpec.name],
                                       nodeSensors[i],
                                       actionSpec.actuation["amount"])
             /\ last'.hookCalls = <<>>
             /\ agentNode' = agentNode]_vars

\* C6: after the construction of an Agent on a node and one or more act()
\* calls, reset() gives the agent node the position and the rotation it had
\* when the Agent was constructed.
C6_ResetRestoresConstructionPose ==
  [][(last'.op = "reset" /\ hist.acts = "acts")
       => /\ agentNode'.translation = hist.constructed.translation
          /\ agentNode'.rotation = hist.constructed.rotation
          /\ absolutePosition(CurrentScene', AgentObject)
               = absoluteTranslation(parentXf, hist.constructed, <<>>,
                                     AgentObject)]_vars

\* C7: setState(s, resetSensors = FALSE) with a normalized rotation followed
\* by getState(out) gives out.position = s.position and out.rotation =
\* s.rotation, whatever the transform of the agent node's parent.
C7_SetStateGetStateRoundTrip ==
  (last.op = "getState" /\ hist.written # <<>> /\ ~hist.written[2])
    => /\ last.out.position = hist.written[1].position
       /\ last.out.rotation = hist.written[1].rotation

\* C10: act(name) returns true exactly when hasAction(name) holds; the
\* agent node or the sensors are chosen by the name of the ActionSpec, not by
\* the key; and when the name of the ActionSpec is no registered primitive,
\* or the action is a non-body action and the node has no sensor, act() still
\* returns true, no node is changed and the hook is not called.
C10_ActReturnsHasAction ==
  [][last'.op = "act"
       => /\ (last'.ret = "true") <=> hasAction(configuration, last'.arg)
          /\ hasAction(configuration, last'.arg)
               => LET actionSpec == configuration[last'.arg]
                      body == actionSpec.name \in BodyActions
                  IN /\ \A i \in DOMAIN last'.calls :
                          /\ last'.calls[i].name = actionSpec.name
                          /\ last'.calls[i].applyFilter = body
                          /\ (last'.calls[i].object = AgentObject) = body
                     /\ (\/ actionSpec.name \notin RegisteredNames
                         \/ (~body /\ nodeSensors = <<>>))
                          => /\ last'.ret = "true"
                             /\ agentNode' = agentNode
                             /\ nodeSensors' = nodeSensors
                             /\ last'.hookCalls = <<>>]_vars

-----------------------------------------------------------------------------
(* Properties of the primitives, checked under SpecPrimitives. *)

\* C9: a primitive applied with magnitude m and followed by its partner with
\* the same m, or by itself with -m, leaves the node with the translation
\* and the rotation it had before; and what a primitive does with m is what
\* its partner does with -m.
C9_OppositesRoundTrip ==
  /\ rt.pc = "restored" => agentNode = rt.origin
  /\ rt.pc = "applied" => agentNode = rt.partner

\* a node that was off the origin and turned about two axes was moved to
\* another place by a primitive of its own axes, and is back
C9_Witness ==
  /\ rt.pc = "restored"
  /\ rt.name \in {"moveRight", "moveLeft", "moveForward", "moveBackward"}
  /\ rt.origin.translation # Origin
  /\ rt.origin.rotation =
       normalized(QMul(RotationAbout("y", 90), RotationAbout("x", 90)))
  /\ agentNode = rt.origin

-----------------------------------------------------------------------------
(* Properties of ObjectControls::action, checked under SpecControls. *)

\* C5: action() with a name that is none of the ten registered primitives,
\* with or without the filter, reports the name as an error, does not call
\* the filter hook, and leaves the node, the registry and the installed hook
\* as they were; action() reads nothing but these, so every call with a
\* registered name that follows does what it would have done had the failed
\* call not been made.
C5_UnknownNameIsNoOp ==
  [][(last'.op = "action" /\ last'.arg.name \notin RegisteredNames)
       => /\ last'.errors = <<last'.arg.name>>
          /\ last'.hookCalls = <<>>
          /\ agentNode' = agentNode
          /\ nodeSensors' = nodeSensors
          /\ moveFuncMap' = moveFuncMap
          /\ moveFilterFunc' = moveFilterFunc
          /\ parentXf' = parentXf]_vars

\* an unregistered name was given to action() with the filter on, on a node
\* that was moved before and with the rejecting hook installed
C5_Witness ==
  /\ last.op = "action"
  /\ last.arg.name \notin RegisteredNames
  /\ last.arg.applyFilter
  /\ last.errors = <<last.arg.name>>
  /\ moveFilterFunc = "rejectAll"
  /\ agentNode # hist.constructed

\* C3: action(node, name, m, applyFilter = TRUE) with a registered name takes
\* the node's absolute position as start, applies the primitive in full,
\* takes the absolute position as end, calls the hook once with (start, end)
\* and translates the node by (corrected - end), after which the node's
\* absolute position is the value the hook returned, whatever the transform
\* of the node's parent; with applyFilter = FALSE the hook is not called.
C3_FilteredPositionIsHookResult ==
  [][(last'.op = "action" /\ last'.arg.name \in RegisteredNames)
       => IF last'.arg.applyFilter
            THEN LET object == last'.arg.object
                     moved == withObject(CurrentScene, object,
                                MoveFunc(moveFuncMap[last'.arg.name],
                                         objectOf(CurrentScene, object),
                                         last'.arg.amount))
                 IN /\ Len(last'.hookCalls) = 1
                    /\ last'.hookCalls[1].start
                         = absolutePosition(CurrentScene, object)
                    /\ last'.hookCalls[1].end = absolutePosition(moved, object)
                    /\ last'.hookCalls[1].ret
                         = MoveFilter(moveFilterFunc,
                                      last'.hookCalls[1].start,
                                      last'.hookCalls[1].end)
                    /\ objectOf(CurrentScene', object)
                         = translate(objectOf(moved, object),
                                     VSub(last'.hookCalls[1].ret,
                                          last'.hookCalls[1].end))
                    /\ absolutePosition(CurrentScene', object)
                         = last'.hookCalls[1].ret
            ELSE last'.hookCalls = <<>>]_vars

=============================================================================
